---- MODULE Spec2Model ----
(***************************************************************************)
(* A model of mpl_richtext (src/mpl_richtext/core.py): the property        *)
(* resolver _normalize_properties with its helpers extend_list and         *)
(* parse_mapping, and the control flow of richtext() around it.            *)
(*                                                                         *)
(* Python values are encoded as follows.                                   *)
(*   - An argument value is a record [t, s, l, m]: t is the Python type    *)
(*     the code dispatches on ("none", "scalar" for a str, "other" for a   *)
(*     non-str scalar such as 42, "list" for a list of plain values,       *)
(*     "pairs" for a list of (indices, value) 2-tuples, "dict" for a       *)
(*     dict); s is the scalar, l the list, m the ordered entries of the    *)
(*     dict or of the list of pairs.                                       *)
(*   - A mapping entry is [tup, k, v]: k the indices of the key, tup       *)
(*     whether the key is a tuple (isinstance(k, tuple)) or a single int.  *)
(*   - A Python dict built by the code (flat_d, props, scalar_kwargs, ...) *)
(*     is a function whose DOMAIN is the set of keys present.              *)
(*   - None is the string "None".  Segment indices are 0-based as in the   *)
(*     source; a Python list lst is a sequence with lst[i] at position     *)
(*     i + 1.                                                              *)
(*   - A text that is tokenized or measured is a sequence of characters.   *)
(*     A props dict is shared by reference: a word or line item holds the  *)
(*     index of its segment's dict in props_list.                          *)
(*   - Lengths (widths, heights, coordinates) are whole numbers of a unit  *)
(*     in which every measured extent is a multiple of 4, so that the      *)
(*     halves the code takes (line_width / 2, 1.5 * height) are exact.     *)
(***************************************************************************)
EXTENDS Integers, Sequences, FiniteSets, TLC

VARIABLES
    strings,     \* richtext argument: the list of segment texts
    colors,      \* richtext argument: colors
    kwargs,      \* richtext argument: **kwargs, in the order they were passed
    pc,          \* position of the call
    err,         \* the exception the call ended with ("" when none)
    props_list,  \* segment_properties: result of _normalize_properties
    hasFigure,   \* whether ax.get_figure() gives a figure
    refreshes,   \* forced fig.canvas.draw() calls made by the call
    scratch,     \* scratch Text artists (measurement) now on the axes
    texts,       \* text_objects: the Text artists drawn, in order
    ulines,      \* the underline Line2D artists added to the axes, in order
    idx,         \* index of the unit a loop is working on
    x,           \* richtext argument: anchor x
    y,           \* richtext argument: anchor y
    box_width,   \* kwargs.pop('box_width', None)
    linespacing, \* kwargs.pop('linespacing', 1.5), in halves: 3 is 1.5
    ha,          \* kwargs.pop('ha', ...)
    va,          \* kwargs.pop('va', ...)
    transform,   \* kwargs.pop('transform', ax.transData)
    zorder,      \* kwargs.pop('zorder', 1)
    extent,      \* what the renderer answers to get_window_extent
    words,       \* _tokenize_strings: the (word, props) pairs
    lines,       \* the lines built: lists of (word, props, width, ascent)
    current_line,        \* _build_lines_wrapped
    current_line_width,  \* _build_lines_wrapped
    line_metrics,        \* _draw_lines: (max_ascent, line_height) per line
    current_y,   \* _draw_lines: top edge of the line being drawn
    current_x,   \* _draw_lines: x-start of the item being drawn
    line_i,      \* _draw_lines: index of the line being drawn
    HAS_HARFBUZZ, \* shaping.py: uharfbuzz and fontTools were imported
    findfont,    \* what matplotlib's findfont does: "path" or "raises"
    shaper,      \* what HarfbuzzShaper(path) and its methods do: "ok" or
                 \* "raises"
    buffer,      \* what hb.shape leaves in the buffer: the glyphs, in order
    measured,    \* the measurements made: which function, of which text,
                 \* answered by which measurer
    results      \* get_shaped_paths: the (path, x, y) emitted

options == <<x, y, box_width, linespacing, ha, va, transform, zorder, extent>>
fonts == <<HAS_HARFBUZZ, findfont, shaper, buffer>>
inputs == <<strings, colors, kwargs, hasFigure, options, fonts>>
canvas == <<refreshes, scratch, texts, ulines>>
building == <<words, lines, current_line, current_line_width>>
drawing == <<line_metrics, current_y, current_x, line_i>>
layout == <<building, drawing>>
shaping == <<measured, results>>
vars == <<strings, colors, kwargs, pc, err, props_list, hasFigure,
          refreshes, scratch, texts, ulines, idx, options, layout, fonts,
          shaping>>

None == "None"

\* ---------------------------------------------------------------- bounds

MaxSegments == 2
MaxListLen == 2
MaxEntries == 2
MaxGlyphs == 3

\* ------------------------------------------------------ Python encodings

NoneVal == [t |-> "none", s |-> None, l |-> <<>>, m |-> <<>>]
Scalar(v) == [t |-> "scalar", s |-> v, l |-> <<>>, m |-> <<>>]
Other(v) == [t |-> "other", s |-> v, l |-> <<>>, m |-> <<>>]
List(l) == [t |-> "list", s |-> None, l |-> l, m |-> <<>>]
Pairs(m) == [t |-> "pairs", s |-> None, l |-> <<>>, m |-> m]
Dict(m) == [t |-> "dict", s |-> None, l |-> <<>>, m |-> m]

Entry(tup, k, v) == [tup |-> tup, k |-> k, v |-> v]

EmptyDict == [q \in {} |-> None]

\* d[k] = v on a Python dict
Put(d, k, v) == [q \in (DOMAIN d) \cup {k} |-> IF q = k THEN v ELSE d[q]]

\* d.get(k): None when the key is absent
Get(d, k) == IF k \in DOMAIN d THEN d[k] ELSE None

\* ------------------------------------------------------------ extend_list

ExtendListPadNone(lst, target_len) ==
    [j \in 1..target_len |-> IF j <= Len(lst) THEN lst[j] ELSE None]

ExtendList(lst, target_len) ==
    IF Len(lst) = 0
    THEN [j \in 1..target_len |-> None]
    ELSE IF Len(lst) >= target_len
         THEN SubSeq(lst, 1, target_len)
         ELSE lst \o [j \in 1..(target_len - Len(lst)) |-> lst[Len(lst)]]

\* ---------------------------------------------------------- parse_mapping

RECURSIVE PutIdxs(_, _, _)
PutIdxs(d, idxs, v) ==
    IF idxs = <<>> THEN d
    ELSE PutIdxs(Put(d, Head(idxs), v), Tail(idxs), v)

FlatAssignFirstOnly(d, e) ==
    IF e.k = <<>> THEN d ELSE Put(d, e.k[1], e.v)

\* one iteration of the loop over the entries: a tuple key assigns every
\* index of the tuple, any other key assigns the key itself
FlatAssign(d, e) ==
    IF e.tup THEN PutIdxs(d, e.k, e.v) ELSE Put(d, e.k[1], e.v)

RECURSIVE Flatten(_, _)
Flatten(entries, d) ==
    IF entries = <<>> THEN d
    ELSE Flatten(Tail(entries), FlatAssign(d, Head(entries)))

NoMapping == [some |-> FALSE, d |-> EmptyDict]

ParseMapping(v) ==
    CASE v.t = "dict" -> [some |-> TRUE, d |-> Flatten(v.m, EmptyDict)]
      [] v.t = "pairs" -> [some |-> TRUE, d |-> Flatten(v.m, EmptyDict)]
      [] OTHER -> NoMapping

\* ---------------------------------------------------- _normalize_properties

\* plural_map
PluralMap ==
    [k \in {"fontsizes", "fontweights", "fontfamilies", "fontstyles",
            "alphas", "backgroundcolors", "colors", "underlines"} |->
        CASE k = "fontsizes" -> "fontsize"
          [] k = "fontweights" -> "fontweight"
          [] k = "fontfamilies" -> "fontfamily"
          [] k = "fontstyles" -> "fontstyle"
          [] k = "alphas" -> "alpha"
          [] k = "backgroundcolors" -> "backgroundcolor"
          [] k = "colors" -> "color"
          [] k = "underlines" -> "underline"]

\* "Handle colors": whether the colors argument is rejected
ColorsAcceptsAnything(c) == FALSE

ColorsInvalid(c) ==
    /\ ~ParseMapping(c).some
    /\ c.t # "scalar"
    /\ c.t # "list"
    /\ c.t # "none"

\* color_list after "Handle colors"
ColorList(c, n) ==
    IF ParseMapping(c).some THEN [j \in 1..n |-> None]
    ELSE IF c.t = "scalar" THEN [j \in 1..n |-> c.s]
    ELSE IF c.t = "list" THEN ExtendList(c.l, n)
    ELSE [j \in 1..n |-> None]

NoKwargs == [list |-> EmptyDict, mapping |-> EmptyDict, scalar |-> EmptyDict]

\* mapping_kwargs[singular_k].update(mapping)
Update(d, mapping) ==
    [q \in (DOMAIN d) \cup (DOMAIN mapping) |->
        IF q \in DOMAIN mapping THEN mapping[q] ELSE d[q]]

\* the plural branch of the loop over kwargs ("continue" included)
ClassifyPlural(acc, kw, n) ==
    LET singular_k == PluralMap[kw.k]
        mapping == ParseMapping(kw.v)
    IN  IF mapping.some
        THEN [acc EXCEPT !.mapping =
                Put(acc.mapping, singular_k,
                    Update(IF singular_k \in DOMAIN acc.mapping
                           THEN acc.mapping[singular_k] ELSE EmptyDict,
                           mapping.d))]
        ELSE IF kw.v.t = "list"
             THEN [acc EXCEPT !.list =
                     Put(acc.list, singular_k, ExtendList(kw.v.l, n))]
             ELSE acc

\* the rest of the loop body, for a key that is not in plural_map
ClassifySingular(acc, kw, n) ==
    LET mapping == ParseMapping(kw.v)
    IN  IF mapping.some
        THEN [acc EXCEPT !.mapping = Put(acc.mapping, kw.k, mapping.d)]
        ELSE IF kw.v.t = "list"
             THEN [acc EXCEPT !.list = Put(acc.list, kw.k, ExtendList(kw.v.l, n))]
             ELSE [acc EXCEPT !.scalar = Put(acc.scalar, kw.k, kw.v.s)]

\* "Separate kwargs into types": for k, v in kwargs.items()
RECURSIVE Classify(_, _, _)
Classify(kws, acc, n) ==
    IF kws = <<>> THEN acc
    ELSE LET kw == Head(kws)
         IN  Classify(Tail(kws),
                      IF kw.k \in DOMAIN PluralMap
                      THEN ClassifyPlural(acc, kw, n)
                      ELSE ClassifySingular(acc, kw, n),
                      n)

\* the body of "for i in range(n)": the props of segment i
SegmentProps(i, cls, color_list, color_mapping) ==
    LET scalars == cls.scalar
        withLists ==
            [k \in (DOMAIN scalars) \cup (DOMAIN cls.list) |->
                IF k \in DOMAIN cls.list THEN cls.list[k][i + 1] ELSE scalars[k]]
        withColorList ==
            IF color_list[i + 1] # None
            THEN Put(withLists, "color", color_list[i + 1])
            ELSE withLists
        withColorMap ==
            IF color_mapping.some /\ color_mapping.d # EmptyDict
               /\ i \in DOMAIN color_mapping.d
            THEN Put(withColorList, "color", color_mapping.d[i])
            ELSE withColorList
        hits == {k \in DOMAIN cls.mapping : i \in DOMAIN cls.mapping[k]}
    IN  [k \in (DOMAIN withColorMap) \cup hits |->
            IF k \in hits THEN cls.mapping[k][i] ELSE withColorMap[k]]

\* _normalize_properties(strings, colors, **kwargs): the ValueError it
\* raises, or props_list
NormalizeProperties(strs, c, kws) ==
    LET n == Len(strs)
    IN  IF ColorsInvalid(c)
        THEN [raised |-> TRUE, props |-> <<>>]
        ELSE [raised |-> FALSE,
              props |-> [i \in 0..(n - 1) |->
                            SegmentProps(i, Classify(kws, NoKwargs, n),
                                         ColorList(c, n), ParseMapping(c))]]

\* ------------------------------------------------------------ the inputs

Indices == 0..(MaxSegments - 1)

ColorValues == {"red", "blue"}
SizeValues == {"10", "20"}

\* style bundles: the values of a styles={index: {...}} argument.  The
\* resolver never looks inside one, so a bundle is passed by name.
BundleNames == {"bundle_std", "bundle_alias", "bundle_mixed"}

BundleOf(b) ==
    CASE b = "bundle_std" ->
            [k \in {"color", "fontsize"} |->
                IF k = "color" THEN "green" ELSE "30"]
      [] b = "bundle_alias" ->
            [k \in {"size", "weight", "family", "style"} |->
                CASE k = "size" -> "24" [] k = "weight" -> "bold"
                  [] k = "family" -> "monospace" [] k = "style" -> "italic"]
      [] b = "bundle_mixed" ->
            [k \in {"size", "color"} |-> IF k = "size" THEN "20" ELSE "green"]

SeqsUpTo(S, n) == UNION {[1..k -> S] : k \in 0..n}

\* dict keys: a single index, or a tuple of two indices
SingleKeys == {[tup |-> FALSE, k |-> <<i>>] : i \in Indices}
TupleKeys == {[tup |-> TRUE, k |-> <<i, j>>] : i, j \in Indices}
SortedTupleKeys == {key \in TupleKeys : key.k[1] < key.k[2]}

\* {key: v} and [(key, v)]
OneEntry(V) ==
    {<<Entry(key.tup, key.k, v)>> : key \in SingleKeys \cup SortedTupleKeys, v \in V}

\* the shapes one per-segment option can take
ArgShapes(V) ==
    {Scalar(v) : v \in V}
        \cup {List(l) : l \in SeqsUpTo(V, MaxListLen)}
        \cup {Dict(<<>>)}
        \cup {Dict(m) : m \in OneEntry(V)}
        \cup {Pairs(m) : m \in OneEntry(V)}

ColorsShapes == {NoneVal, Other("42")} \cup ArgShapes(ColorValues)

StylesShapes == {NoneVal, Dict(<<>>)} \cup {Dict(m) : m \in OneEntry(BundleNames)}

Kw(k, v) == [k |-> k, v |-> v]

StringLists == {[j \in 1..n |-> "seg"] : n \in 0..MaxSegments}

\* calls that pass color information only
ColorCalls ==
    {[colors |-> c, kwargs |-> kws] :
        c \in ColorsShapes,
        kws \in {<<>>} \cup {<<Kw("color", a)>> : a \in ArgShapes(ColorValues)}}

\* calls that pass fontsize and/or fontsizes, in either keyword order
SizeCalls ==
    {[colors |-> NoneVal, kwargs |-> kws] :
        kws \in {<<Kw(k, a)>> : k \in {"fontsize", "fontsizes"},
                                a \in ArgShapes(SizeValues)}
            \cup {<<Kw("fontsize", a), Kw("fontsizes", b)>> :
                    a, b \in ArgShapes(SizeValues)}
            \cup {<<Kw("fontsizes", b), Kw("fontsize", a)>> :
                    a, b \in ArgShapes(SizeValues)}}

\* calls that pass styles, with at most one other option and a colors
StyledCalls ==
    {[colors |-> c, kwargs |-> kws \o <<Kw("styles", st)>>] :
        c \in {NoneVal} \cup {Scalar(v) : v \in ColorValues}
                \cup {Dict(m) : m \in OneEntry(ColorValues)},
        kws \in {<<>>}
                \cup {<<Kw("color", Scalar(v))>> : v \in ColorValues}
                \cup {<<Kw("fontsize", Scalar(v))>> : v \in SizeValues}
                \cup {<<Kw(k, Dict(m))>> : k \in {"fontsize", "fontsizes"},
                                           m \in OneEntry(SizeValues)},
        st \in StylesShapes}

\* a dict key that is a str: a key that equals no segment index.  The keys
\* of the dicts the code builds are hashable Python values; a str key is
\* encoded as a number below every index of range(n).
StrKey(name) ==
    CASE name = "facecolor" -> 0 - 1
      [] name = "pad" -> 0 - 2

\* bbox=dict(facecolor='#2b2b2b', pad=10): one value, itself a dict
BboxValue ==
    Dict(<<Entry(FALSE, <<StrKey("facecolor")>>, "#2b2b2b"),
           Entry(FALSE, <<StrKey("pad")>>, "10")>>)

\* calls that pass a dict-valued text property next to the usual ones
BoxCalls ==
    {[colors |-> c, kwargs |-> kws \o <<Kw("bbox", BboxValue)>>] :
        c \in {NoneVal, List(<<"red", "blue">>)},
        kws \in {<<>>} \cup {<<Kw("fontsize", Scalar(v))>> : v \in SizeValues}}

ResolverCalls == ColorCalls \cup SizeCalls \cup StyledCalls \cup BoxCalls

\* -------------------------------------------- the options and the renderer

\* box_width: None, or a width
NoBox == [given |-> FALSE, w |-> 0]
Box(w) == [given |-> TRUE, w |-> w]

\* the bounding boxes of a renderer: the advance of each character, the
\* height of a text at each font size (None: the default size), and how far
\* the box of a text drawn on a baseline reaches below it
Extent(adv_a, adv_space) ==
    [adv |-> [c \in {"a", " ", "H", "g"} |->
                CASE c = "a" -> adv_a [] c = " " -> adv_space [] OTHER -> 4],
     height |-> [size \in {None, "10", "20"} |-> IF size = "20" THEN 8 ELSE 4],
     descent |-> 2]

\* the defaults of the options that richtext pops from kwargs
DefaultOptions ==
    /\ x = 0
    /\ y = 0
    /\ box_width = NoBox
    /\ linespacing = 3
    /\ ha = "left"
    /\ va = "center"
    /\ transform = "transData"
    /\ zorder = "1"
    /\ extent = Extent(4, 4)

\* no shaping engine: HAS_HARFBUZZ is False, every measurement and every
\* drawing is native
NativeOnly ==
    /\ HAS_HARFBUZZ = FALSE
    /\ findfont = "path"
    /\ shaper = "ok"
    /\ buffer = <<>>
    /\ measured = <<>>
    /\ results = <<>>

\* the locals of the layout functions before they run
NothingLaidOut ==
    /\ words = <<>>
    /\ lines = <<>>
    /\ current_line = <<>>
    /\ current_line_width = 0
    /\ line_metrics = <<>>
    /\ current_y = 0
    /\ current_x = 0
    /\ line_i = 0

\* ------------------------------------- specification of the resolver alone

InitResolve ==
    /\ strings \in StringLists
    /\ \E call \in ResolverCalls :
          /\ colors = call.colors
          /\ kwargs = call.kwargs
    /\ pc = "call"
    /\ err = ""
    /\ props_list = <<>>
    /\ hasFigure = TRUE
    /\ refreshes = 0
    /\ scratch = 0
    /\ texts = <<>>
    /\ ulines = <<>>
    /\ idx = 0
    /\ DefaultOptions
    /\ NothingLaidOut
    /\ NativeOnly

\* segment_properties = _normalize_properties(strings, colors, **kwargs)
\* the keys that richtext pops from kwargs before it resolves the styles
GlobalKeys ==
    {"box_width", "linespacing", "spacing", "ha", "horizontalalignment",
     "va", "verticalalignment", "transform", "zorder"}

\* k in kwargs
Has(kws, k) == \E j \in 1..Len(kws) : kws[j].k = k

\* kwargs[k]
ArgOf(kws, k) == kws[CHOOSE j \in 1..Len(kws) : kws[j].k = k].v.s

\* kwargs.pop(k, default): the value
Pop(kws, k, default) == IF Has(kws, k) THEN ArgOf(kws, k) ELSE default

PopGlobalsShortCircuit(kws) ==
    SelectSeq(kws, LAMBDA kw :
        /\ kw.k \notin GlobalKeys \ {"horizontalalignment", "verticalalignment"}
        /\ kw.k = "horizontalalignment" => Has(kws, "ha")
        /\ kw.k = "verticalalignment" => Has(kws, "va"))

\* "Extract global special kwargs": kwargs after the pops.  The default of
\* each pop of ha and va is itself a pop, evaluated first, so both
\* spellings leave kwargs
PopGlobals(kws) == SelectSeq(kws, LAMBDA kw : kw.k \notin GlobalKeys)

Normalize ==
    /\ pc = "call"
    /\ LET r == NormalizeProperties(strings, colors, PopGlobals(kwargs))
       IN  IF r.raised
           THEN /\ pc' = "raised"
                /\ err' = "ValueError"
                /\ props_list' = props_list
           ELSE /\ pc' = "normalized"
                /\ err' = err
                /\ props_list' = r.props
    /\ UNCHANGED <<inputs, shaping, layout, canvas, idx>>

NextResolve == Normalize

SpecResolve == InitResolve /\ [][NextResolve]_vars

\* ------------------------------------------------ vocabulary of the claims

N == Len(strings)
Segments == 0..(N - 1)

Singular(k) == IF k \in DOMAIN PluralMap THEN PluralMap[k] ELSE k

IsMappingArg(v) == v.t \in {"dict", "pairs"}

\* the indices an entry's key names
KeyIndices(e) == {e.k[q] : q \in 1..Len(e.k)}

\* the values a dict or list of pairs gives for index i
ValuesAt(v, i) == {v.m[q].v : q \in {r \in 1..Len(v.m) : i \in KeyIndices(v.m[r])}}

KwPositions == 1..Len(kwargs)

\* some per-property index mapping passed for property p has an entry for i
MappingCovers(p, i) ==
    \E j \in KwPositions :
        /\ Singular(kwargs[j].k) = p
        /\ IsMappingArg(kwargs[j].v)
        /\ ValuesAt(kwargs[j].v, i) # {}

\* the colors argument gives segment i a color
ColorsArgCovers(i) ==
    \/ colors.t = "scalar"
    \/ colors.t = "list" /\ colors.l # <<>>
    \/ IsMappingArg(colors) /\ ValuesAt(colors, i) # {}

IsStyles(kw) == kw.k = "styles"
IsNotStyles(kw) == kw.k # "styles"

HasStyles == \E j \in KwPositions : IsStyles(kwargs[j])

StylesArg == kwargs[CHOOSE j \in KwPositions : IsStyles(kwargs[j])].v

\* the bundles styles gives for segment i (tuple keys expanded)
BundlesAt(i) ==
    IF HasStyles /\ StylesArg.t = "dict" THEN ValuesAt(StylesArg, i) ELSE {}

\* what the arguments other than styles resolve to
BelowStyles == NormalizeProperties(strings, colors, SelectSeq(kwargs, IsNotStyles)).props

\* size -> fontsize, weight -> fontweight, family -> fontfamily, style -> fontstyle
AliasOf ==
    [a \in {"size", "weight", "family", "style"} |->
        CASE a = "size" -> "fontsize" [] a = "weight" -> "fontweight"
          [] a = "family" -> "fontfamily" [] a = "style" -> "fontstyle"]

Canonical(k) == IF k \in DOMAIN AliasOf THEN AliasOf[k] ELSE k

\* the properties bundle b names, aliases resolved
NamedBy(b) == {Canonical(k) : k \in DOMAIN BundleOf(b)}

\* the value bundle b gives property p
BundleValue(b, p) ==
    BundleOf(b)[CHOOSE k \in DOMAIN BundleOf(b) : Canonical(k) = p]

StyleProperties == {"color", "fontsize", "fontweight", "fontfamily", "fontstyle"}

\* ------------------------------------------------------------------ claims

\* C1: where segment i has both an index-mapping override (colors={i: c},
\* fontsizes={i: s}) and a styles[i] bundle naming the same property, the
\* resolved style of i carries the bundle's value; properties the bundle
\* does not name keep the value of the lower-precedence sources.
C1_BundleWins ==
    pc = "normalized" =>
        \A i \in Segments :
            /\ \A b \in BundlesAt(i) :
                 \A p \in {"color", "fontsize"} \cap DOMAIN BundleOf(b) :
                    (MappingCovers(p, i)
                        \/ (p = "color" /\ IsMappingArg(colors)
                                /\ ValuesAt(colors, i) # {}))
                     => Get(props_list[i], p) = BundleOf(b)[p]
            /\ \A p \in StyleProperties :
                 (\A b \in BundlesAt(i) : p \notin NamedBy(b))
                     => Get(props_list[i], p) = Get(BelowStyles[i], p)

\* C2: in a styles bundle the alias keys size, weight, family and style are
\* resolved as fontsize, fontweight, fontfamily and fontstyle; aliases and
\* standard keys may be mixed in one bundle.
C2_AliasResolved ==
    pc = "normalized" =>
        \A i \in Segments :
            \A b \in BundlesAt(i) :
                \A a \in (DOMAIN BundleOf(b)) \cap (DOMAIN AliasOf) :
                    Get(props_list[i], AliasOf[a]) = BundleOf(b)[a]

\* C3: a styles bundle keyed by a tuple of indices gives its color and size
\* to exactly the segments in the tuple; every other segment keeps the
\* color and size it has without styles.
C3_TupleBundle ==
    (pc = "normalized" /\ HasStyles /\ StylesArg.t = "dict") =>
        \A q \in 1..Len(StylesArg.m) :
            LET e == StylesArg.m[q]
            IN  (e.tup /\ {"color", "fontsize"} \subseteq NamedBy(e.v)) =>
                    \A i \in Segments :
                        IF i \in KeyIndices(e)
                        THEN /\ Get(props_list[i], "color") = BundleValue(e.v, "color")
                             /\ Get(props_list[i], "fontsize") = BundleValue(e.v, "fontsize")
                        ELSE /\ Get(props_list[i], "color") = Get(BelowStyles[i], "color")
                             /\ Get(props_list[i], "fontsize") = Get(BelowStyles[i], "fontsize")

\* C4: styles=None and styles={} are the same as not passing styles: the
\* call resolves, and every segment gets exactly the style the other
\* arguments give.
C4_EmptyStylesIgnored ==
    (pc # "call" /\ HasStyles /\ StylesArg \in {NoneVal, Dict(<<>>)}) =>
        /\ pc = "normalized"
        /\ props_list = BelowStyles

\* what the extension law gives index i of a non-empty list
ListLaw(l, i) == IF i + 1 <= Len(l) THEN l[i + 1] ELSE l[Len(l)]

\* kwargs[j] is the only list passed for its property
OnlyList(j) ==
    \A j2 \in KwPositions \ {j} :
        Singular(kwargs[j2].k) = Singular(kwargs[j].k) => kwargs[j2].v.t # "list"

\* C5: a non-empty list of length k gives index i the value list[i] for
\* i < k and list[k-1] for i >= k, and a list longer than n gives its first
\* n elements; this is the resolved value wherever no higher-precedence
\* source (colors argument, index mapping) has a value.
C5_ExtensionLaw ==
    pc = "normalized" =>
        \A i \in Segments :
            /\ (colors.t = "list" /\ colors.l # <<>> /\ ~MappingCovers("color", i))
                 => Get(props_list[i], "color") = ListLaw(colors.l, i)
            /\ \A j \in KwPositions :
                 LET p == Singular(kwargs[j].k)
                 IN  (/\ kwargs[j].v.t = "list"
                      /\ kwargs[j].v.l # <<>>
                      /\ OnlyList(j)
                      /\ ~MappingCovers(p, i)
                      /\ (p = "color" => ~ColorsArgCovers(i)))
                     => Get(props_list[i], p) = ListLaw(kwargs[j].v.l, i)

\* a list shorter than the segments was extended over a scalar of the
\* same property
C5_Witness ==
    /\ pc = "normalized"
    /\ N = MaxSegments
    /\ Len(kwargs) = 2
    /\ kwargs[1].k = "fontsize" /\ kwargs[1].v.t = "scalar"
    /\ kwargs[2].k = "fontsizes" /\ kwargs[2].v.t = "list"
    /\ Len(kwargs[2].v.l) = 1
    /\ kwargs[2].v.l[1] # kwargs[1].v.s
    /\ props_list[N - 1]["fontsize"] = kwargs[2].v.l[1]

RemoveAt(s, j) == SubSeq(s, 1, j - 1) \o SubSeq(s, j + 1, Len(s))

\* the resolved styles agree on color and fontsize
SameStyles(a, b) ==
    \A i \in Segments :
        \A p \in {"color", "fontsize"} : Get(a[i], p) = Get(b[i], p)

MappingSource(p, i) ==
    UNION {ValuesAt(kwargs[j].v, i) :
            j \in {q \in KwPositions :
                    Singular(kwargs[q].k) = p /\ IsMappingArg(kwargs[q].v)}}

ColorsSource(p, i) ==
    IF p # "color" THEN {}
    ELSE IF colors.t = "scalar" THEN {colors.s}
    ELSE IF colors.t = "list" /\ colors.l # <<>> THEN {ListLaw(colors.l, i)}
    ELSE IF IsMappingArg(colors) THEN ValuesAt(colors, i)
    ELSE {}

\* (an empty list yields None for every index)
ListSource(p, i) ==
    {IF kwargs[j].v.l = <<>> THEN None ELSE ListLaw(kwargs[j].v.l, i) :
        j \in {q \in KwPositions :
                Singular(kwargs[q].k) = p /\ kwargs[q].v.t = "list"}}

ScalarSource(p) ==
    {kwargs[j].v.s : j \in {q \in KwPositions :
                              kwargs[q].k = p /\ kwargs[q].v.t = "scalar"}}

\* C9: for each property and segment the resolved value is the one given
\* by the highest-precedence source that has a value there, in the order
\* scalar < list < colors argument < per-property index mapping; an index
\* mapping leaves every index it does not contain at the lower value.
C9_Precedence ==
    pc = "normalized" =>
        \A i \in Segments :
            \A p \in {"color", "fontsize"} :
                LET r == Get(props_list[i], p)
                IN  IF MappingSource(p, i) # {} THEN r \in MappingSource(p, i)
                    ELSE IF ColorsSource(p, i) # {} THEN r \in ColorsSource(p, i)
                    ELSE IF ListSource(p, i) # {} THEN r \in ListSource(p, i)
                    ELSE IF ScalarSource(p) # {} THEN r \in ScalarSource(p)
                    ELSE r = None

\* C10: a property passed as a plural index mapping and as a singular index
\* mapping has the plural folded into the singular: every index present
\* in either mapping receives a mapped value, in either keyword order.
C10_PluralFolded ==
    pc = "normalized" =>
        \A j1, j2 \in KwPositions :
            (/\ kwargs[j1].k \in DOMAIN PluralMap
             /\ kwargs[j2].k = PluralMap[kwargs[j1].k]
             /\ IsMappingArg(kwargs[j1].v)
             /\ IsMappingArg(kwargs[j2].v))
            => \A i \in Segments :
                 LET mapped == ValuesAt(kwargs[j1].v, i) \cup ValuesAt(kwargs[j2].v, i)
                 IN  mapped # {} => Get(props_list[i], kwargs[j2].k) \in mapped

\* kwargs[j] is the only keyword passed for its property
OnlySource(j) ==
    \A j2 \in KwPositions \ {j} : Singular(kwargs[j2].k) # Singular(kwargs[j].k)

\* C11: a plural-form option (fontsizes, fontweights, ...) given a single
\* scalar value applies that value to every segment's resolved style.
C11_PluralScalarApplied ==
    pc = "normalized" =>
        \A j \in KwPositions :
            (/\ kwargs[j].k \in DOMAIN PluralMap
             /\ kwargs[j].v.t = "scalar"
             /\ OnlySource(j))
            => \A i \in Segments :
                 Get(props_list[i], PluralMap[kwargs[j].k]) = kwargs[j].v.s

\* C12: a property passed as a single value that is itself a dictionary
\* (bbox=dict(facecolor=..., pad=10)) is applied to every segment: the
\* dictionary is in every segment's resolved style, unchanged.
C12_DictValueApplied ==
    pc = "normalized" =>
        \A j \in KwPositions :
            kwargs[j].k = "bbox" =>
                \A i \in Segments :
                    /\ "bbox" \in DOMAIN props_list[i]
                    /\ props_list[i]["bbox"] = Flatten(kwargs[j].v.m, EmptyDict)

\* ------------------------- specification of calls that pass index mappings

\* dicts and lists of pairs of up to MaxEntries entries, keyed by single
\* indices and by tuples of indices
EntrySeqs(V) ==
    SeqsUpTo({Entry(key.tup, key.k, v) :
                key \in SingleKeys \cup SortedTupleKeys, v \in V},
             MaxEntries)

DistinctKeys(m) ==
    \A q, r \in 1..Len(m) : (q # r) => (m[q].tup # m[r].tup \/ m[q].k # m[r].k)

MappingShapes(V) ==
    {Dict(m) : m \in {e \in EntrySeqs(V) : DistinctKeys(e)}}
        \cup {Pairs(m) : m \in EntrySeqs(V) \ {<<>>}}

\* a mapping as the colors argument, or as one per-property option
MappingCalls ==
    {[colors |-> c, kwargs |-> <<>>] : c \in MappingShapes(ColorValues)}
        \cup {[colors |-> NoneVal, kwargs |-> <<Kw(k, a)>>] :
                k \in {"fontsize", "fontsizes"}, a \in MappingShapes(SizeValues)}

InitMapping ==
    /\ strings \in StringLists
    /\ \E call \in MappingCalls :
          /\ colors = call.colors
          /\ kwargs = call.kwargs
    /\ pc = "call"
    /\ err = ""
    /\ props_list = <<>>
    /\ hasFigure = TRUE
    /\ refreshes = 0
    /\ scratch = 0
    /\ texts = <<>>
    /\ ulines = <<>>
    /\ idx = 0
    /\ DefaultOptions
    /\ NothingLaidOut
    /\ NativeOnly

NextMapping == Normalize

SpecMapping == InitMapping /\ [][NextMapping]_vars

\* the single-index entries a tuple-keyed entry stands for, in order
RECURSIVE SingleEntries(_, _)
SingleEntries(k, v) ==
    IF k = <<>> THEN <<>>
    ELSE <<Entry(FALSE, <<Head(k)>>, v)>> \o SingleEntries(Tail(k), v)

RECURSIVE ExpandEntries(_)
ExpandEntries(m) ==
    IF m = <<>> THEN <<>>
    ELSE (IF Head(m).tup THEN SingleEntries(Head(m).k, Head(m).v) ELSE <<Head(m)>>)
            \o ExpandEntries(Tail(m))

\* the argument with every tuple-keyed entry written as single-index entries
Expanded(v) == IF IsMappingArg(v) THEN [v EXCEPT !.m = ExpandEntries(v.m)] ELSE v

ExpandedKwargs == [j \in KwPositions |-> Kw(kwargs[j].k, Expanded(kwargs[j].v))]

\* C7: in the colors argument and in a per-property mapping, an entry keyed
\* by a tuple of indices resolves as the single-index entries, one per
\* index of the tuple, with the same value.
C7_ExpansionLaw ==
    pc = "normalized" =>
        props_list = NormalizeProperties(strings, Expanded(colors), ExpandedKwargs).props

\* a tuple-keyed entry gave its value to two segments, next to another entry
C7_Witness ==
    /\ pc = "normalized"
    /\ N = 2
    /\ colors.t = "dict"
    /\ Len(colors.m) = 2
    /\ colors.m[1].tup /\ KeyIndices(colors.m[1]) = {0, 1}
    /\ ~colors.m[2].tup /\ colors.m[2].k = <<1>>
    /\ colors.m[2].v # colors.m[1].v
    /\ props_list[0]["color"] = colors.m[1].v
    /\ props_list[1]["color"] = colors.m[2].v

\* --------------------------------------------- specification of richtext()
\* The call without box_width (seamless mode: one unit per segment), on
\* text that needs no complex shaping.

CallColors ==
    {NoneVal, Other("42"), Scalar("red"), List(<<"red", "blue">>),
     Dict(<<Entry(FALSE, <<0>>, "blue")>>)}

CallKwargs ==
    {<<>>, <<Kw("underline", Scalar("True"))>>,
     <<Kw("underline", Dict(<<Entry(FALSE, <<0>>, "True")>>))>>}

InitCall ==
    /\ strings \in StringLists
    /\ colors \in CallColors
    /\ kwargs \in CallKwargs
    /\ hasFigure \in BOOLEAN
    /\ pc = "call"
    /\ err = ""
    /\ props_list = <<>>
    /\ refreshes = 0
    /\ scratch = 0
    /\ texts = <<>>
    /\ ulines = <<>>
    /\ idx = 0
    /\ DefaultOptions
    /\ NothingLaidOut
    /\ NativeOnly

Raise(e) == pc' = "raised" /\ err' = e

\* fig = ax.get_figure(); if fig == None: raise ValueError(...)
GetFigure ==
    /\ pc = "normalized"
    /\ IF hasFigure
       THEN pc' = "get_renderer" /\ err' = err
       ELSE Raise("ValueError")
    /\ UNCHANGED <<inputs, shaping, layout, props_list, canvas, idx>>

\* try: renderer = fig.canvas.get_renderer()
GetRenderer ==
    /\ pc = "get_renderer"
    /\ \E ok \in BOOLEAN : pc' = IF ok THEN "build_line" ELSE "canvas_draw"
    /\ UNCHANGED <<inputs, shaping, layout, err, props_list, canvas, idx>>

CanvasDrawRetry ==
    /\ pc = "canvas_draw"
    /\ \E ok \in BOOLEAN :
          IF ok
          THEN /\ pc' = "get_renderer"
               /\ err' = err
               /\ refreshes' = refreshes + 1
          ELSE /\ pc' = "canvas_draw"
               /\ err' = "canvas.draw"
               /\ refreshes' = refreshes
    /\ UNCHANGED <<inputs, shaping, layout, props_list, scratch, texts, ulines, idx>>

\* except Exception: fig.canvas.draw()
CanvasDraw ==
    /\ pc = "canvas_draw"
    /\ \E ok \in BOOLEAN :
          IF ok
          THEN /\ pc' = "get_renderer_again"
               /\ err' = err
               /\ refreshes' = refreshes + 1
          ELSE /\ Raise("canvas.draw")
               /\ refreshes' = refreshes
    /\ UNCHANGED <<inputs, shaping, layout, props_list, scratch, texts, ulines, idx>>

\* renderer = fig.canvas.get_renderer(), in the except clause
GetRendererAgain ==
    /\ pc = "get_renderer_again"
    /\ \E ok \in BOOLEAN :
          IF ok THEN pc' = "build_line" /\ err' = err
          ELSE Raise("get_renderer")
    /\ UNCHANGED <<inputs, shaping, layout, props_list, canvas, idx>>

\* the next position of a loop over the units, or `after` at its end
Advance(here, after) ==
    IF idx + 1 < N THEN pc' = here /\ idx' = idx + 1
    ELSE pc' = after /\ idx' = 0

\* _build_line_seamless, _get_text_metrics of segment idx, native
\* measurement: t = ax.text(0, 0, text, **kwargs)
MetricsText ==
    /\ pc = "build_line"
    /\ IF N = 0
       THEN pc' = "line_metrics" /\ scratch' = scratch
       ELSE pc' = "metrics_extent" /\ scratch' = scratch + 1
    /\ UNCHANGED <<inputs, shaping, layout, err, props_list, refreshes, texts, ulines, idx>>

\* ... bbox = t.get_window_extent(renderer=renderer); ...; t.remove();
\* return (width_data, ascent_data)
MetricsExtent ==
    /\ pc = "metrics_extent"
    /\ \E ok \in BOOLEAN :
          IF ok
          THEN /\ scratch' = scratch - 1
               /\ err' = err
               /\ Advance("build_line", "line_metrics")
          ELSE /\ Raise("get_window_extent")
               /\ UNCHANGED <<scratch, idx>>
    /\ UNCHANGED <<inputs, shaping, layout, props_list, refreshes, texts, ulines>>

\* _draw_lines, "Calculate metrics for each line": _get_text_height of item
\* idx, native measurement: t = ax.text(0, 0, measure_text, **kwargs)
HeightText ==
    /\ pc = "line_metrics"
    /\ IF N = 0
       THEN pc' = "draw" /\ scratch' = scratch
       ELSE pc' = "height_extent" /\ scratch' = scratch + 1
    /\ UNCHANGED <<inputs, shaping, layout, err, props_list, refreshes, texts, ulines, idx>>

\* ... bbox = t.get_window_extent(renderer=renderer); ...; t.remove();
\* return h
HeightExtent ==
    /\ pc = "height_extent"
    /\ \E ok \in BOOLEAN :
          IF ok
          THEN /\ scratch' = scratch - 1
               /\ err' = err
               /\ Advance("line_metrics", "draw")
          ELSE /\ Raise("get_window_extent")
               /\ UNCHANGED <<scratch, idx>>
    /\ UNCHANGED <<inputs, shaping, layout, props_list, refreshes, texts, ulines>>

\* underline = text_kwargs.pop('underline', False); if underline:
Truthy(v) == v \notin {None, "False"}

\* _draw_lines: t = ax.text(current_x, baseline_y, word, **text_kwargs);
\* text_objects.append(t)
DrawText ==
    /\ pc = "draw"
    /\ IF N = 0
       THEN /\ pc' = "returned"
            /\ UNCHANGED <<texts, idx>>
       ELSE /\ texts' = Append(texts, [unit |-> idx,
                                      color |-> Get(props_list[idx], "color")])
            /\ IF Truthy(Get(props_list[idx], "underline"))
               THEN pc' = "underline" /\ idx' = idx
               ELSE Advance("draw", "returned")
    /\ UNCHANGED <<inputs, shaping, layout, err, props_list, refreshes, scratch, ulines>>

\* "Draw underline if requested": the bbox of the drawn text, then
\* ax.add_line(line).  When get_window_extent raises, the except clause
\* reads line_center_y, a name that is never assigned.
DrawUnderline ==
    /\ pc = "underline"
    /\ \E ok \in BOOLEAN :
          IF ok
          THEN /\ ulines' = Append(ulines, [unit |-> idx,
                                              color |-> texts[Len(texts)].color])
               /\ err' = err
               /\ Advance("draw", "returned")
          ELSE /\ Raise("NameError")
               /\ UNCHANGED <<ulines, idx>>
    /\ UNCHANGED <<inputs, shaping, layout, props_list, refreshes, scratch, texts>>

NextCall ==
    \/ Normalize
    \/ GetFigure
    \/ GetRenderer
    \/ CanvasDraw
    \/ GetRendererAgain
    \/ MetricsText
    \/ MetricsExtent
    \/ HeightText
    \/ HeightExtent
    \/ DrawText
    \/ DrawUnderline

SpecCall == InitCall /\ [][NextCall]_vars

\* C8: when colors is neither a string, a list, a mapping nor None, the call
\* fails with ValueError before any drawing: no forced canvas refresh, no
\* scratch artifact, no text and no line has been created.
C8_InvalidColorsBeforeDrawing ==
    (colors.t = "other" /\ pc # "call") =>
        /\ pc = "raised"
        /\ err = "ValueError"
        /\ refreshes = 0
        /\ scratch = 0
        /\ texts = <<>>
        /\ ulines = <<>>

\* colors=42 on an axes that has a figure: the call has raised
C8_Witness ==
    /\ colors = Other("42")
    /\ hasFigure
    /\ N > 0
    /\ pc = "raised"
    /\ err = "ValueError"

\* ---------------------------------------------------- _tokenize_strings

\* string.split(' ')
RECURSIVE SplitFrom(_, _, _)
SplitFrom(rest, part, parts) ==
    IF rest = <<>> THEN Append(parts, part)
    ELSE IF Head(rest) = " "
         THEN SplitFrom(Tail(rest), <<>>, Append(parts, part))
         ELSE SplitFrom(Tail(rest), Append(part, Head(rest)), parts)

Split(string) == SplitFrom(string, <<>>, <<>>)

Word(word, props) == [word |-> word, props |-> props]

TokenizeStringNoSpace(string, props) ==
    LET parts == Split(string)
    IN  [j \in 1..Len(parts) |-> Word(parts[j], props)]

\* the inner loop, over the parts of one string: every part but the last
\* keeps its space, the last part is kept when it is not empty
TokenizeString(string, props) ==
    LET parts == Split(string)
        last == Len(parts)
        spaced == [j \in 1..(last - 1) |-> Word(parts[j] \o <<" ">>, props)]
    IN  IF parts[last] # <<>>
        THEN Append(spaced, Word(parts[last], props))
        ELSE spaced

\* for string, props in zip(strings, properties), from segment i on
RECURSIVE TokenizeFrom(_, _, _)
TokenizeFrom(strs, properties, i) ==
    IF i >= Len(strs) \/ i \notin DOMAIN properties THEN <<>>
    ELSE TokenizeString(strs[i + 1], i) \o TokenizeFrom(strs, properties, i + 1)

TokenizeStrings(strs, properties) == TokenizeFrom(strs, properties, 0)

\* ------------------------------------------------------- the measurements

\* bbox_data.width of a text
RECURSIVE TextWidth(_)
TextWidth(text) ==
    IF text = <<>> THEN 0
    ELSE extent.adv[Head(text)] + TextWidth(Tail(text))

\* bbox_data.height of a text drawn with props
TextHeight(text, props) ==
    IF text = <<>> THEN 0 ELSE extent.height[Get(props, "fontsize")]

\* d without the key k: the dict after d.pop(k, None)
Without(d, k) == [q \in (DOMAIN d) \ {k} |-> d[q]]

\* kwargs = text_kwargs.copy(); kwargs.pop('underline', None): the kwargs of
\* the scratch ax.text
MeasureKwargs(props) == Without(props, "underline")

\* _get_text_metrics, native measurement: (width_data, ascent_data)
GetTextMetrics(text, props) ==
    LET kwargs_ == MeasureKwargs(props)
    IN  [w |-> TextWidth(text), asc |-> TextHeight(text, kwargs_)]

\* text.strip()
Strip(text) == SelectSeq(text, LAMBDA c : c # " ")

\* _get_text_height, native measurement
GetTextHeight(text, props) ==
    LET kwargs_ == MeasureKwargs(props)
        measure_text == IF Strip(text) # <<>> THEN text ELSE <<"H", "g">>
    IN  TextHeight(measure_text, kwargs_)

Item(word, props, w, asc) == [word |-> word, props |-> props, w |-> w, asc |-> asc]

\* (word, props, w, asc) of a (word, props)
Measured(unit) ==
    LET m == GetTextMetrics(unit.word, props_list[unit.props])
    IN  Item(unit.word, unit.props, m.w, m.asc)

\* --------------------------------------------------- _build_lines_wrapped

WrapsAtBoxWidth(line, line_width, w, box) ==
    line_width + w >= box /\ line # <<>>

\* if current_line_width + w > box_width and current_line
Wraps(line, line_width, w, box) ==
    line_width + w > box /\ line # <<>>

WidthAfterWrapZero(w) == 0

\* current_line_width = w, on a wrap
WidthAfterWrap(w) == w

LinesAtEndKeepEmpty(built, line) == Append(built, line)

\* if current_line: lines.append(current_line)
LinesAtEnd(built, line) == IF line # <<>> THEN Append(built, line) ELSE built

\* ---------------------------------------------------- _build_line_seamless

SeamlessLineSkipEmpty(strs, properties) ==
    SelectSeq([j \in 1..Len(strs) |-> Word(strs[j], j - 1)],
              LAMBDA unit : unit.word # <<>>)

\* for string, props in zip(strings, properties): one unit per segment
SeamlessLine(strs, properties) ==
    [j \in 1..Len(strs) |-> Word(strs[j], j - 1)]

\* ------------------------------------------------------------ _draw_lines

Max(S) == CHOOSE m \in S : \A n \in S : n <= m

RECURSIVE Sum(_)
Sum(numbers) == IF numbers = <<>> THEN 0 ELSE Head(numbers) + Sum(Tail(numbers))

FirstAscent(line) == IF line = <<>> THEN 0 ELSE line[1].asc

\* max(item[3] for item in line) if line else 0.0
MaxAscent(line) ==
    IF line = <<>> THEN 0 ELSE Max({line[j].asc : j \in 1..Len(line)})

\* max_height: the largest _get_text_height of the line, from 0.0
MaxHeight(line) ==
    Max({0} \cup {GetTextHeight(line[j].word, props_list[line[j].props]) :
                    j \in 1..Len(line)})

\* (max_ascent, max_height * linespacing)
LineMetrics(line) ==
    [max_ascent |-> MaxAscent(line),
     line_height |-> (MaxHeight(line) * linespacing) \div 2]

TopYSwapped(v, anchor_y, total_block_height) ==
    IF v = "center" THEN anchor_y + (total_block_height \div 2)
    ELSE IF v = "top" THEN anchor_y + total_block_height
    ELSE IF v = "bottom" THEN anchor_y
    ELSE anchor_y + (total_block_height \div 2)

\* "Calculate top Y position based on vertical alignment of the block"
TopY(v, anchor_y, total_block_height) ==
    IF v = "center" THEN anchor_y + (total_block_height \div 2)
    ELSE IF v = "top" THEN anchor_y
    ELSE IF v = "bottom" THEN anchor_y + total_block_height
    ELSE anchor_y + (total_block_height \div 2)

\* line_width = sum(item[2] for item in line)
LineWidth(line) == Sum([j \in 1..Len(line) |-> line[j].w])

LineStartXLeft(h, anchor_x, line_width) == anchor_x

\* "Calculate line width for horizontal alignment": line_start_x
LineStartX(h, anchor_x, line_width) ==
    IF h = "center" THEN anchor_x - (line_width \div 2)
    ELSE IF h = "right" THEN anchor_x - line_width
    ELSE anchor_x

NextXOverlap(at, w) == at

\* current_x += w
NextX(at, w) == at + w

\* text_kwargs after the pop of underline and the update: the kwargs of
\* ax.text(current_x, baseline_y, word, **text_kwargs)
TextKwargs(props) ==
    Update(Without(props, "underline"),
           [k \in {"va", "ha", "transform", "zorder"} |->
               CASE k = "va" -> "baseline"
                 [] k = "ha" -> "left"
                 [] k = "transform" -> transform
                 [] k = "zorder" -> zorder])

PropsAfterDrawInPlace(props) == TextKwargs(props)

\* text_kwargs = props.copy(): the pop and the update act on the copy, the
\* props dict of the segment stays as it is
PropsAfterDraw(props) == props

\* bbox_data.y0 of a drawn Text: the bottom edge of its own bounding box
TextBottom(t) == IF t.word = <<>> THEN t.y ELSE t.y - extent.descent

Line2DAtBaseline(t, w) ==
    [x0 |-> t.x, x1 |-> t.x + w, y |-> t.y, color |-> t.color,
     props |-> t.props, transform |-> transform, zorder |-> zorder]

\* Line2D([current_x, current_x + w], [y_bottom, y_bottom], color=color,
\* linewidth=1, transform=transform, zorder=zorder)
Line2D(t, w) ==
    [x0 |-> t.x, x1 |-> t.x + w, y |-> TextBottom(t), color |-> t.color,
     props |-> t.props, transform |-> transform, zorder |-> zorder]

\* ------------------------------------ the actions of the layout and drawing
\* The measurements answer here; a measurement that raises is followed in
\* SpecCall.  A scratch Text that _get_text_metrics or _get_text_height
\* adds is removed within the same step.

\* words = _tokenize_strings(strings, segment_properties)
TokenizeWords ==
    /\ pc = "build_line"
    /\ box_width.given
    /\ words' = TokenizeStrings(strings, props_list)
    /\ pc' = "pack"
    /\ idx' = 0
    /\ UNCHANGED <<inputs, shaping, err, props_list, canvas, drawing,
                   lines, current_line, current_line_width>>

\* _build_lines_wrapped: the body of "for word, props in words"
PackWord ==
    /\ pc = "pack"
    /\ idx < Len(words)
    /\ LET item == Measured(words[idx + 1])
       IN  IF Wraps(current_line, current_line_width, item.w, box_width.w)
           THEN /\ lines' = Append(lines, current_line)
                /\ current_line' = <<item>>
                /\ current_line_width' = WidthAfterWrap(item.w)
           ELSE /\ lines' = lines
                /\ current_line' = Append(current_line, item)
                /\ current_line_width' = current_line_width + item.w
    /\ idx' = idx + 1
    /\ UNCHANGED <<inputs, shaping, pc, err, props_list, canvas, drawing, words>>

\* _build_lines_wrapped, after the loop: return lines
EndOfWords ==
    /\ pc = "pack"
    /\ idx = Len(words)
    /\ lines' = LinesAtEnd(lines, current_line)
    /\ pc' = "metrics"
    /\ idx' = 0
    /\ UNCHANGED <<inputs, shaping, err, props_list, canvas, drawing,
                   words, current_line, current_line_width>>

\* lines = [_build_line_seamless(strings, segment_properties, ax, renderer)]
BuildLineSeamless ==
    /\ pc = "build_line"
    /\ ~box_width.given
    /\ LET units == SeamlessLine(strings, props_list)
       IN  lines' = <<[j \in 1..Len(units) |-> Measured(units[j])]>>
    /\ pc' = "metrics"
    /\ UNCHANGED <<inputs, shaping, err, props_list, canvas, drawing, idx,
                   words, current_line, current_line_width>>

\* _draw_lines: line_metrics, total_block_height, top_y; current_y = top_y
CalcLineMetrics ==
    /\ pc = "metrics"
    /\ LET metrics == [l \in 1..Len(lines) |-> LineMetrics(lines[l])]
           total_block_height ==
               Sum([l \in 1..Len(lines) |-> metrics[l].line_height])
       IN  /\ line_metrics' = metrics
           /\ current_y' = TopY(va, y, total_block_height)
    /\ line_i' = 0
    /\ pc' = "place_line"
    /\ UNCHANGED <<inputs, shaping, err, props_list, canvas, building, idx, current_x>>

\* for i, line in enumerate(lines): line_width, line_start_x, current_x
StartLine ==
    /\ pc = "place_line"
    /\ line_i < Len(lines)
    /\ current_x' = LineStartX(ha, x, LineWidth(lines[line_i + 1]))
    /\ idx' = 0
    /\ pc' = "place_item"
    /\ UNCHANGED <<inputs, shaping, err, props_list, canvas, building,
                   line_metrics, current_y, line_i>>

\* for word, props, w, asc in line: t = ax.text(current_x, baseline_y, word,
\* **text_kwargs); text_objects.append(t); the underline; current_x += w
DrawItem ==
    /\ pc = "place_item"
    /\ idx < Len(lines[line_i + 1])
    /\ LET item == lines[line_i + 1][idx + 1]
           baseline_y == current_y - line_metrics[line_i + 1].max_ascent
           t == [word |-> item.word, props |-> item.props,
                 x |-> current_x, y |-> baseline_y,
                 color |-> Get(props_list[item.props], "color"),
                 kwargs |-> TextKwargs(props_list[item.props])]
       IN  /\ texts' = Append(texts, t)
           /\ props_list' = [props_list EXCEPT ![item.props] = PropsAfterDraw(@)]
           /\ IF Truthy(Get(props_list[item.props], "underline"))
              THEN \E ok \in BOOLEAN :
                     IF ok
                     THEN /\ ulines' = Append(ulines, Line2D(t, item.w))
                          /\ current_x' = NextX(current_x, item.w)
                          /\ idx' = idx + 1
                          /\ UNCHANGED <<pc, err>>
                     ELSE /\ Raise("NameError")
                          /\ UNCHANGED <<ulines, current_x, idx>>
              ELSE /\ current_x' = NextX(current_x, item.w)
                   /\ idx' = idx + 1
                   /\ UNCHANGED <<pc, err, ulines>>
    /\ UNCHANGED <<inputs, shaping, refreshes, scratch, building,
                   line_metrics, current_y, line_i>>

\* current_y -= line_height
EndLine ==
    /\ pc = "place_item"
    /\ idx = Len(lines[line_i + 1])
    /\ current_y' = current_y - line_metrics[line_i + 1].line_height
    /\ line_i' = line_i + 1
    /\ idx' = 0
    /\ pc' = "place_line"
    /\ UNCHANGED <<inputs, shaping, err, props_list, canvas, building,
                   line_metrics, current_x>>

\* return text_objects
ReturnTexts ==
    /\ pc = "place_line"
    /\ line_i = Len(lines)
    /\ pc' = "returned"
    /\ UNCHANGED <<inputs, shaping, err, props_list, canvas, layout, idx>>

NextLayout ==
    \/ Normalize
    \/ GetFigure
    \/ GetRenderer
    \/ CanvasDraw
    \/ GetRendererAgain
    \/ TokenizeWords
    \/ PackWord
    \/ EndOfWords
    \/ BuildLineSeamless
    \/ CalcLineMetrics
    \/ StartLine
    \/ DrawItem
    \/ EndLine
    \/ ReturnTexts

\* ------------------------------------ specification of wrap-mode packing

TextLists(T) == UNION {[1..n -> T] : n \in 0..MaxSegments}

\* texts with leading, trailing and repeated spaces
WrapTexts == {<<>>, <<"a">>, <<"a", " ", "a">>, <<" ", "a", " ", " ", "a", " ">>}

\* renderers: each character 0, 2 or 4 wide
WrapExtents == {Extent(a, b) : a, b \in {0, 2, 4}}

BoxWidths == {NoBox} \cup {Box(w) : w \in {0 - 2, 0, 4, 8}}

InitWrap ==
    /\ strings \in TextLists(WrapTexts)
    /\ colors = NoneVal
    /\ kwargs = <<>>
    /\ pc = "call"
    /\ err = ""
    /\ props_list = <<>>
    /\ hasFigure = TRUE
    /\ refreshes = 0
    /\ scratch = 0
    /\ texts = <<>>
    /\ ulines = <<>>
    /\ idx = 0
    /\ x = 0
    /\ y = 0
    /\ box_width \in BoxWidths
    /\ linespacing = 3
    /\ ha = "left"
    /\ va = "center"
    /\ transform = "transData"
    /\ zorder = "1"
    /\ extent \in WrapExtents
    /\ NothingLaidOut
    /\ NativeOnly

SpecWrap == InitWrap /\ [][NextLayout]_vars

\* --------------------------------- specification of the drawn positions

DrawTexts == {<<>>, <<"a">>, <<"a", " ", "a">>}

DrawColors == {NoneVal, List(<<"red", "blue">>)}

DrawKwargs ==
    {<<>>,
     <<Kw("fontsize", List(<<"10", "20">>)),
       Kw("underline", Dict(<<Entry(FALSE, <<0>>, "True")>>))>>}

InitDraw ==
    /\ strings \in TextLists(DrawTexts)
    /\ colors \in DrawColors
    /\ kwargs \in DrawKwargs
    /\ pc = "call"
    /\ err = ""
    /\ props_list = <<>>
    /\ hasFigure = TRUE
    /\ refreshes = 0
    /\ scratch = 0
    /\ texts = <<>>
    /\ ulines = <<>>
    /\ idx = 0
    /\ x = 10
    /\ y = 20
    /\ box_width \in {NoBox, Box(8)}
    /\ linespacing \in {2, 3}
    /\ ha \in {"left", "center", "right"}
    /\ va \in {"top", "center", "bottom", "baseline"}
    /\ transform = "transData"
    /\ zorder = "1"
    /\ extent = Extent(4, 2)
    /\ NothingLaidOut
    /\ NativeOnly

SpecDraw == InitDraw /\ [][NextLayout]_vars

\* ------------------------------------------- claims on layout and drawing

\* the call is past the resolver and the renderer
LayingOut == pc \in {"pack", "metrics", "place_line", "place_item", "returned"}

\* wrap mode, the words are tokenized
Tokenized == box_width.given /\ LayingOut

\* wrap mode, _build_lines_wrapped has returned
Packed == Tokenized /\ pc # "pack"

RECURSIVE Concat(_)
Concat(seqs) == IF seqs = <<>> THEN <<>> ELSE Head(seqs) \o Concat(Tail(seqs))

\* the (word, props) of the items of a line
UnitsOf(line) == [j \in 1..Len(line) |-> Word(line[j].word, line[j].props)]

AllLines == 1..Len(lines)

\* C13: wrap-mode packing loses and reorders nothing: no produced line is
\* empty, and the produced lines concatenated in order are exactly the
\* input token sequence.
C13_PackingKeepsTokens ==
    Packed =>
        /\ \A l \in AllLines : lines[l] # <<>>
        /\ Concat([l \in AllLines |-> UnitsOf(lines[l])]) = words

\* tokens went to three lines or more, one of them holding two tokens
C13_Witness ==
    /\ Packed
    /\ Len(lines) >= 3
    /\ \E l \in AllLines : Len(lines[l]) >= 2
    /\ Len(words) > Len(lines)

\* C14: in wrap mode, for non-negative token widths, a token whose measured
\* width exceeds boxWidth is the only token on its line, wherever it occurs
\* and whatever the widths of its neighbours.
C14_OversizedAlone ==
    Packed =>
        \A l \in AllLines :
            \A j \in 1..Len(lines[l]) :
                lines[l][j].w > box_width.w => Len(lines[l]) = 1

\* an oversized token in the middle of the sequence, followed by a
\* zero-width token
C14_Witness ==
    /\ Packed
    /\ \E l \in AllLines :
          /\ l > 1
          /\ l + 1 < Len(lines)
          /\ Len(lines[l]) = 1
          /\ lines[l][1].w > box_width.w
          /\ lines[l + 1][1].w = 0

\* the step appends the word to the current line
Appends ==
    /\ lines' = lines
    /\ current_line' = Append(current_line, Measured(words[idx + 1]))

\* C15: greedy first-fit packing: a token is appended to the current line
\* exactly when the line is empty or currentLineWidth + tokenWidth <=
\* boxWidth; every line holding two or more tokens has total width <=
\* boxWidth, and the first token of every line after the first would have
\* pushed the preceding line over boxWidth.
C15_GreedyFirstFit ==
    /\ [][(pc = "pack" /\ idx < Len(words)) =>
            (Appends <=>
                \/ current_line = <<>>
                \/ current_line_width + Measured(words[idx + 1]).w <= box_width.w)]_vars
    /\ [](Packed =>
            \A l \in AllLines :
                /\ Len(lines[l]) >= 2 => LineWidth(lines[l]) <= box_width.w
                /\ l > 1 => LineWidth(lines[l - 1]) + lines[l][1].w > box_width.w)

\* a line was filled to exactly boxWidth and the next token started a line
C15_Witness ==
    /\ Packed
    /\ Len(lines) >= 2
    /\ Len(lines[1]) >= 2
    /\ LineWidth(lines[1]) = box_width.w
    /\ lines[2][1].w > 0

\* the words that carry the props of segment i
WordsOf(i) == SelectSeq(words, LAMBDA unit : unit.props = i)

\* C16: wrap-mode tokenization keeps the text: the tokens of a segment are
\* non-empty, every token except the segment's final one ends with the
\* space it was split on, the tokens concatenated in order are the segment's
\* text, and each token carries its parent segment's resolved style, in
\* segment order.
C16_TokenizationKeepsText ==
    Tokenized =>
        /\ \A k \in 1..Len(words) :
             /\ words[k].word # <<>>
             /\ words[k].props \in Segments
             /\ k > 1 => words[k - 1].props <= words[k].props
        /\ \A i \in Segments :
             LET mine == WordsOf(i)
             IN  /\ Concat([k \in 1..Len(mine) |-> mine[k].word]) = strings[i + 1]
                 /\ \A k \in 1..(Len(mine) - 1) :
                      mine[k].word[Len(mine[k].word)] = " "

\* a text with leading, repeated and trailing spaces was tokenized next to
\* another segment
C16_Witness ==
    /\ Tokenized
    /\ N = 2
    /\ strings[1] = <<"a", " ", "a">>
    /\ strings[2] = <<" ", "a", " ", " ", "a", " ">>
    /\ Len(WordsOf(0)) = 2
    /\ Len(WordsOf(1)) = 4
    /\ WordsOf(1)[3].word = <<" ">>

\* C17: the call returns exactly one handle per rendered unit, in input
\* order: without box_width one per input segment (no space-splitting, also
\* for empty or space-containing segments), with box_width one per token in
\* token order; underline decorations are not in the returned list.
C17_OneHandlePerUnit ==
    pc = "returned" =>
        IF box_width.given
        THEN /\ Len(texts) = Len(words)
             /\ \A k \in 1..Len(texts) :
                  Word(texts[k].word, texts[k].props) = words[k]
        ELSE /\ Len(texts) = Len(strings)
             /\ \A k \in 1..Len(texts) :
                  Word(texts[k].word, texts[k].props) = Word(strings[k], k - 1)

\* seamless mode: a space-containing segment and an empty one, with an
\* underline drawn
C17_Witness ==
    /\ pc = "returned"
    /\ ~box_width.given
    /\ strings = << <<"a", " ", "a">>, <<>> >>
    /\ Len(ulines) = 1
    /\ Len(texts) = 2

\* block height: the sum of all line heights
BlockHeight == Sum([l \in 1..Len(line_metrics) |-> line_metrics[l].line_height])

\* where the claim puts the top edge of the first line
TopEdge ==
    CASE va = "top" -> y
      [] va = "bottom" -> y + BlockHeight
      [] OTHER -> y + (BlockHeight \div 2)

\* C18: vertical block alignment: with block height H the sum of all line
\* heights, the top edge of the first line is at y for va='top', at y + H
\* for va='bottom', and at y + H/2 for va='center' and any unrecognized va.
C18_VerticalAlignment ==
    /\ (pc \in {"place_line", "place_item"} /\ line_i = 0) => current_y = TopEdge
    /\ (LayingOut /\ texts # <<>>) =>
          texts[1].y + line_metrics[1].max_ascent = TopEdge

\* two lines drawn from the bottom edge
C18_Witness ==
    /\ pc = "returned"
    /\ va = "bottom"
    /\ Len(lines) = 2
    /\ BlockHeight > 0
    /\ texts[1].y = y + BlockHeight - line_metrics[1].max_ascent

\* the number of items on the lines before line l
ItemsBefore(l) == Sum([j \in 1..(l - 1) |-> Len(lines[j])])

\* where the claim starts a line of total width W
StartOfLine(W) ==
    CASE ha = "left" -> x
      [] ha = "right" -> x - W
      [] ha = "center" -> x - (W \div 2)

\* C19: horizontal alignment is computed per line from that line's own
\* total width W: its first item starts at x for 'left', at x - W for
\* 'right' and at x - W/2 for 'center'; lines of different widths are
\* aligned independently to the same anchor x.
C19_HorizontalAlignment ==
    LayingOut =>
        \A l \in AllLines :
            (lines[l] # <<>> /\ ItemsBefore(l) < Len(texts)) =>
                texts[ItemsBefore(l) + 1].x = StartOfLine(LineWidth(lines[l]))

\* two lines of different widths, centered on the same anchor
C19_Witness ==
    /\ pc = "returned"
    /\ ha = "center"
    /\ Len(lines) = 2
    /\ LineWidth(lines[1]) # LineWidth(lines[2])
    /\ texts[1].x = x - (LineWidth(lines[1]) \div 2)
    /\ texts[ItemsBefore(2) + 1].x = x - (LineWidth(lines[2]) \div 2)

\* C20: within every line the items are laid out left to right without gap
\* or overlap: the x-start of each item is the x-start of the preceding
\* item plus the preceding item's measured width; the colors of the
\* returned handles follow the input order of the colors list.
C20_ItemsAbut ==
    LayingOut =>
        /\ \A l \in AllLines :
             \A j \in 1..(Len(lines[l]) - 1) :
                ItemsBefore(l) + j < Len(texts) =>
                    texts[ItemsBefore(l) + j + 1].x
                        = texts[ItemsBefore(l) + j].x + lines[l][j].w
        /\ (colors.t = "list" /\ colors.l # <<>>) =>
             \A k \in 1..Len(texts) :
                /\ texts[k].color = ListLaw(colors.l, texts[k].props)
                /\ ~box_width.given => texts[k].color = ListLaw(colors.l, k - 1)

\* seamless mode: two segments colored from the list, the second starting
\* where the first ends
C20_Witness ==
    /\ pc = "returned"
    /\ ~box_width.given
    /\ Len(texts) = 2
    /\ texts[1].color = "red"
    /\ texts[2].color = "blue"
    /\ lines[1][1].w > 0
    /\ texts[2].x = texts[1].x + lines[1][1].w

\* the largest of the numbers of a non-empty set, 0 for the empty set
Largest(S) == IF S = {} THEN 0 ELSE CHOOSE m \in S : \A n \in S : n <= m

\* the height the claim gives line l: the maximum item height of the line
\* times linespacing
HeightOfLine(l) ==
    (Largest({GetTextHeight(lines[l][j].word, props_list[lines[l][j].props]) :
                j \in 1..Len(lines[l])}) * linespacing) \div 2

\* the top edge of line l: the top edge of the line before it minus the
\* height of that line
RECURSIVE TopOfLine(_)
TopOfLine(l) ==
    IF l = 1 THEN TopEdge ELSE TopOfLine(l - 1) - HeightOfLine(l - 1)

\* the baseline the claim gives line l
BaselineOfLine(l) ==
    TopOfLine(l) - Largest({lines[l][j].asc : j \in 1..Len(lines[l])})

\* C21: all items of a line are drawn at one shared baseline y, the line's
\* top edge minus the maximum ascent among its items; each line's height is
\* the maximum item height of the line times linespacing, and the top edge
\* of line i+1 is the top edge of line i minus the height of line i.
C21_BaselineAndStacking ==
    LayingOut =>
        /\ \A l \in 1..Len(line_metrics) :
             line_metrics[l].line_height = HeightOfLine(l)
        /\ pc \in {"place_line", "place_item"} =>
             current_y = IF line_i = 0 THEN TopEdge
                         ELSE TopOfLine(line_i) - HeightOfLine(line_i)
        /\ \A l \in AllLines :
             \A j \in 1..Len(lines[l]) :
                ItemsBefore(l) + j <= Len(texts) =>
                    texts[ItemsBefore(l) + j].y = BaselineOfLine(l)

\* a second line holding items of different ascent, drawn on one baseline
C21_Witness ==
    /\ pc = "returned"
    /\ Len(lines) = 2
    /\ Len(lines[2]) = 2
    /\ lines[2][1].asc < lines[2][2].asc
    /\ texts[ItemsBefore(2) + 1].y = texts[ItemsBefore(2) + 2].y
    /\ texts[ItemsBefore(2) + 1].y < texts[1].y

\* ------------------------------------------------ claims on failing calls

\* C22: native measurement leaves no scratch text behind: when richtext has
\* returned or raised, no scratch artifact of a measurement is on the canvas,
\* also when the bounding-box query of the scratch text raised.
C22_NoScratchAtExit ==
    pc \in {"returned", "raised"} => scratch = 0

\* C23: no partial results: a call that has raised leaves no text and no
\* underline of its own on the canvas, also when drawing a later unit or
\* its underline failed.
C23_NoPartialResults ==
    pc = "raised" => (texts = <<>> /\ ulines = <<>>)

\* C26: the canvas is refreshed only after the first renderer acquisition
\* failed and at most once per call; when the renderer is then available the
\* call goes on without error; when the refresh or the second acquisition
\* fails the call ends with that error, with no further retry and nothing
\* drawn.
C26_RefreshOnceThenFail ==
    /\ [][/\ pc' = "canvas_draw" => pc = "get_renderer"
          /\ refreshes' # refreshes =>
                (pc = "canvas_draw" /\ refreshes = 0 /\ refreshes' = 1)
          /\ pc \in {"canvas_draw", "get_renderer_again"} =>
                \/ pc' = "raised" /\ err' \in {"canvas.draw", "get_renderer"}
                \/ pc = "canvas_draw" /\ pc' = "get_renderer_again" /\ err' = ""
                \/ pc = "get_renderer_again" /\ pc' = "build_line" /\ err' = ""
          /\ pc = "raised" => UNCHANGED vars]_vars
    /\ [](err \in {"canvas.draw", "get_renderer"} =>
            /\ pc = "raised"
            /\ refreshes <= 1
            /\ scratch = 0
            /\ texts = <<>>
            /\ ulines = <<>>)

\* a call whose first renderer acquisition failed, refreshed the canvas once
\* and drew its block
C26_Witness ==
    /\ pc = "returned"
    /\ refreshes = 1
    /\ texts # <<>>

\* ----------------------------------------------------- claims on underline

\* the resolved underline of drawn text k is truthy
Underlined(k) ==
    Get(props_list[texts[k].props], "underline") \notin {None, "False"}

\* the underlined ones of the first k drawn texts
UnderlinedUpTo(k) == {m \in 1..k : Underlined(m)}

C28_InputsUnchanged ==
    /\ [][/\ strings' = strings
          /\ colors' = colors
          /\ kwargs' = kwargs
          /\ pc # "call" => props_list' = props_list]_vars
    /\ []((LayingOut \/ (pc = "raised" /\ texts # <<>>)) =>
            props_list = NormalizeProperties(strings, colors, kwargs).props)

\* wrap mode: two tokens of one underlined segment were drawn from the same
\* props dict, which still holds its underline while the kwargs of the drawn
\* texts do not
C28_Witness ==
    /\ pc = "returned"
    /\ box_width.given
    /\ Len(texts) >= 2
    /\ texts[1].props = 0
    /\ texts[2].props = 0
    /\ "underline" \in DOMAIN props_list[0]
    /\ texts[2].kwargs # props_list[0]
    /\ kwargs # <<>>

\* ------------------------------------ specification of the global options

\* a box_width or a linespacing argument as the number the layout uses:
\* lengths in whole units, linespacing in halves
Number(s) ==
    CASE s = "8" -> 8
      [] s = "1.0" -> 2
      [] s = "1.5" -> 3
      [] s = "2.0" -> 4

\* zero or one keyword argument k with a value of V
Optional(k, V) == {<<>>} \cup {<<Kw(k, Scalar(v))>> : v \in V}

\* an option under its short name, its long name, both or neither
Spellings(short, long, V) ==
    {a \o b : a \in Optional(short, V), b \in Optional(long, V)}

OptionKwargs ==
    {<<Kw("fontsize", Scalar("10"))>> \o b \o l \o h \o v \o t \o z :
        b \in Optional("box_width", {"8"}),
        l \in Spellings("linespacing", "spacing", {"1.0", "2.0"}),
        h \in Spellings("ha", "horizontalalignment", {"center", "right"}),
        v \in Spellings("va", "verticalalignment", {"top"}),
        t \in Optional("transform", {"transAxes"}),
        z \in Optional("zorder", {"5"})}

InitOptions ==
    /\ strings \in TextLists({<<"a", " ", "a">>})
    /\ colors = NoneVal
    /\ kwargs \in OptionKwargs
    /\ pc = "enter"
    /\ err = ""
    /\ props_list = <<>>
    /\ hasFigure = TRUE
    /\ refreshes = 0
    /\ scratch = 0
    /\ texts = <<>>
    /\ ulines = <<>>
    /\ idx = 0
    /\ DefaultOptions
    /\ NothingLaidOut
    /\ NativeOnly

\* richtext, "Extract global special kwargs"
ExtractGlobals ==
    /\ pc = "enter"
    /\ box_width' = IF Has(kwargs, "box_width")
                    THEN Box(Number(ArgOf(kwargs, "box_width"))) ELSE NoBox
    /\ linespacing' = IF Has(kwargs, "spacing")
                      THEN Number(ArgOf(kwargs, "spacing"))
                      ELSE Number(Pop(kwargs, "linespacing", "1.5"))
    /\ ha' = Pop(kwargs, "ha", Pop(kwargs, "horizontalalignment", "left"))
    /\ va' = Pop(kwargs, "va", Pop(kwargs, "verticalalignment", "center"))
    /\ transform' = Pop(kwargs, "transform", "transData")
    /\ zorder' = Pop(kwargs, "zorder", "1")
    /\ pc' = "call"
    /\ UNCHANGED <<strings, colors, kwargs, hasFigure, x, y, extent, err,
                   fonts, shaping,
                   props_list, canvas, idx, layout>>

NextOptions ==
    \/ ExtractGlobals
    \/ NextLayout

SpecOptions == InitOptions /\ [][NextOptions]_vars

\* C29: the global options never reach a segment's style: box_width,
\* linespacing, spacing, ha/horizontalalignment, va/verticalalignment,
\* transform and zorder are in no segment's resolved props, whichever of
\* them the call passes, and every unit is drawn with ha 'left', va
\* 'baseline' and the block's transform and zorder, whatever the block's ha
\* and va are.
C29_GlobalsDoNotLeak ==
    /\ \A i \in DOMAIN props_list : (DOMAIN props_list[i]) \cap GlobalKeys = {}
    /\ \A k \in 1..Len(texts) :
         /\ texts[k].kwargs.ha = "left"
         /\ texts[k].kwargs.va = "baseline"
         /\ texts[k].kwargs.transform = transform
         /\ texts[k].kwargs.zorder = zorder
         /\ DOMAIN texts[k].kwargs =
               (DOMAIN props_list[texts[k].props]) \cup
                  {"ha", "va", "transform", "zorder"}

\* a centered, top-aligned block in axes coordinates, called with both
\* spellings of ha and with spacing next to linespacing: its units were
\* drawn
C29_Witness ==
    /\ pc = "returned"
    /\ Has(kwargs, "ha")
    /\ Has(kwargs, "horizontalalignment")
    /\ Has(kwargs, "spacing")
    /\ Has(kwargs, "linespacing")
    /\ ha = "center"
    /\ va = "top"
    /\ transform = "transAxes"
    /\ zorder = "5"
    /\ box_width.given
    /\ Len(texts) >= 2
    /\ DOMAIN props_list[0] = {"fontsize"}

\* ------------------------------- specification of the choice of measurer
\*
\* The texts of this specification are sequences of code points.

\* _needs_complex_shaping(text)
NeedsComplexShaping(text) ==
    \E j \in 1..Len(text) :
        \/ 2304 <= text[j] /\ text[j] <= 2431
        \/ 43232 <= text[j] /\ text[j] <= 43263
        \/ 7376 <= text[j] /\ text[j] <= 7423

\* _resolve_font_path(kwargs): the path, None, or "raises" for the exception
\* of findfont.  findfont(fp) of a fontproperties value is called outside
\* the try, findfont of a family inside it.
ResolveFontPath(kws) ==
    IF Get(kws, "fontproperties") # None
    THEN findfont
    ELSE IF findfont = "raises" THEN None ELSE "path"

\* if path: shaper = HarfbuzzShaper(path); ... return, inside try/except
\* Exception: pass, then the native measurement or drawing
Answers(path) == IF path = "path" /\ shaper = "ok" THEN "shaper" ELSE "native"

\* code points just outside and inside the three ranges, and plain Latin
ShapeTexts ==
    {<<>>, <<97>>, <<2303>>, <<97, 2431>>, <<43232>>, <<7424>>}

ShapeKwargs ==
    {<<>>,
     <<Kw("fontproperties", Scalar("fp"))>>,
     <<Kw("fontfamily", Scalar("Noto Sans Devanagari"))>>}

InitShape ==
    /\ strings \in TextLists(ShapeTexts)
    /\ colors = NoneVal
    /\ kwargs \in ShapeKwargs
    /\ pc = "call"
    /\ err = ""
    /\ props_list = <<>>
    /\ hasFigure = TRUE
    /\ refreshes = 0
    /\ scratch = 0
    /\ texts = <<>>
    /\ ulines = <<>>
    /\ idx = 0
    /\ DefaultOptions
    /\ NothingLaidOut
    /\ HAS_HARFBUZZ \in BOOLEAN
    /\ findfont \in {"path", "raises"}
    /\ shaper \in {"ok", "raises"}
    /\ buffer = <<>>
    /\ measured = <<>>
    /\ results = <<>>

\* _build_line_seamless: _get_text_metrics of segment idx
MeasureMetrics ==
    /\ pc = "build_line"
    /\ IF N = 0
       THEN /\ pc' = "line_metrics"
            /\ UNCHANGED <<err, idx, measured>>
       ELSE LET text == strings[idx + 1]
                kwargs_ == MeasureKwargs(props_list[idx])
                path == IF HAS_HARFBUZZ /\ NeedsComplexShaping(text)
                        THEN ResolveFontPath(kwargs_) ELSE None
            IN  IF path = "raises"
                THEN /\ Raise("findfont")
                     /\ UNCHANGED <<idx, measured>>
                ELSE /\ measured' = Append(measured,
                                       [fn |-> "_get_text_metrics",
                                        text |-> text, by |-> Answers(path)])
                     /\ err' = err
                     /\ Advance("build_line", "line_metrics")
    /\ UNCHANGED <<inputs, layout, props_list, canvas, results>>

\* _draw_lines, "Calculate metrics for each line": _get_text_height of item
\* idx
MeasureHeight ==
    /\ pc = "line_metrics"
    /\ IF N = 0
       THEN /\ pc' = "draw"
            /\ UNCHANGED <<err, idx, measured>>
       ELSE LET text == strings[idx + 1]
                kwargs_ == MeasureKwargs(props_list[idx])
                path == IF HAS_HARFBUZZ
                        THEN ResolveFontPath(kwargs_) ELSE None
            IN  IF path = "raises"
                THEN /\ Raise("findfont")
                     /\ UNCHANGED <<idx, measured>>
                ELSE /\ measured' = Append(measured,
                                       [fn |-> "_get_text_height",
                                        text |-> text, by |-> Answers(path)])
                     /\ err' = err
                     /\ Advance("line_metrics", "draw")
    /\ UNCHANGED <<inputs, layout, props_list, canvas, results>>

\* _draw_lines: ShapedText(...) and ax.add_artist(t) inside try/except
\* Exception: pass, together with the path resolution; ax.text(...) when
\* the shaper was not used
DrawUnit ==
    /\ pc = "draw"
    /\ IF N = 0
       THEN /\ pc' = "returned"
            /\ UNCHANGED <<texts, idx>>
       ELSE LET word == strings[idx + 1]
                text_kwargs == TextKwargs(props_list[idx])
                path == IF HAS_HARFBUZZ /\ NeedsComplexShaping(word)
                        THEN ResolveFontPath(text_kwargs) ELSE None
            IN  /\ texts' = Append(texts, [word |-> word, props |-> idx,
                                          by |-> Answers(path)])
                /\ Advance("draw", "returned")
    /\ UNCHANGED <<inputs, layout, err, props_list, refreshes, scratch,
                   ulines, shaping>>

NextShape ==
    \/ Normalize
    \/ GetFigure
    \/ GetRenderer
    \/ CanvasDraw
    \/ GetRendererAgain
    \/ MeasureMetrics
    \/ MeasureHeight
    \/ DrawUnit

SpecShape == InitShape /\ [][NextShape]_vars

\* the font-path resolution or the shaper fails in this call
ShapingFails == findfont = "raises" \/ shaper = "raises"

\* C24: shaper and font-resolution failures never surface: when font-path
\* resolution or the shaper fails, for a font given by family or by a
\* fontproperties object, the call does not raise for it, and every
\* measurement and every drawing is the native one.
C24_ShapingFailuresNeverSurface ==
    ShapingFails =>
        /\ err # "findfont"
        /\ \A k \in 1..Len(measured) : measured[k].by = "native"
        /\ \A k \in 1..Len(texts) : texts[k].by = "native"

\* C25: the shaper is consulted only for text that has a code point in a
\* complex-shaping range: for every other text the width, the ascent and
\* the height are measured natively and the unit is drawn with the native
\* text primitive, also when the shaping engine is available.
C25_ShaperOnlyForComplexText ==
    /\ \A k \in 1..Len(measured) :
         ~NeedsComplexShaping(measured[k].text) => measured[k].by = "native"
    /\ \A k \in 1..Len(texts) :
         ~NeedsComplexShaping(texts[k].word) => texts[k].by = "native"

\* -------------------------------- specification of HarfbuzzShaper's paths
\*
\* Positions are in font units.  A glyph of the buffer is the pair (info,
\* pos) of hb.shape: whether info.codepoint indexes glyph_order, whether
\* the glyph's outline has vertices, and the advances and offsets of pos.

Glyph(in_order, outline, x_advance, x_offset, y_offset) ==
    [in_order |-> in_order, outline |-> outline, x_advance |-> x_advance,
     y_advance |-> 0, x_offset |-> x_offset, y_offset |-> y_offset]

\* a base glyph, a combining mark, a space, and glyph ids beyond the end of
\* glyph_order
Glyphs ==
    {Glyph(TRUE, TRUE, 600, 0, 0),
     Glyph(TRUE, TRUE, 0, 50, 20),
     Glyph(TRUE, FALSE, 300, 0, 0),
     Glyph(FALSE, FALSE, 600, 0, 0),
     Glyph(FALSE, FALSE, 0, 0, 0)}

Buffers == UNION {[1..n -> Glyphs] : n \in 0..MaxGlyphs}

\* get_text_width: total_advance_units = sum(pos.x_advance for pos in
\* positions)
TotalAdvanceUnits(positions) ==
    Sum([j \in 1..Len(positions) |-> positions[j].x_advance])

InitGlyphs ==
    /\ strings = <<>>
    /\ colors = NoneVal
    /\ kwargs = <<>>
    /\ pc = "get_shaped_paths"
    /\ err = ""
    /\ props_list = <<>>
    /\ hasFigure = TRUE
    /\ refreshes = 0
    /\ scratch = 0
    /\ texts = <<>>
    /\ ulines = <<>>
    /\ idx = 0
    /\ DefaultOptions
    /\ NothingLaidOut
    /\ HAS_HARFBUZZ = TRUE
    /\ findfont = "path"
    /\ shaper = "ok"
    /\ buffer \in Buffers
    /\ measured = <<>>
    /\ results = <<>>

\* get_shaped_paths: one pass of `for info, pos in zip(infos, positions)`.
\* `continue` in the except clause skips the rest of the body, the advance
\* of the pen included.
ShapeGlyph ==
    /\ pc = "get_shaped_paths"
    /\ idx < Len(buffer)
    /\ LET pos == buffer[idx + 1]
       IN  IF ~pos.in_order
           THEN UNCHANGED <<results, current_x, current_y>>
           ELSE /\ results' = IF pos.outline
                              THEN Append(results,
                                          [glyph |-> idx + 1,
                                           x |-> current_x + pos.x_offset,
                                           y |-> current_y + pos.y_offset])
                              ELSE results
                /\ current_x' = current_x + pos.x_advance
                /\ current_y' = current_y + pos.y_advance
    /\ idx' = idx + 1
    /\ UNCHANGED <<inputs, pc, err, props_list, canvas, building,
                   line_metrics, line_i, measured>>

\* return results
ReturnPaths ==
    /\ pc = "get_shaped_paths"
    /\ idx = Len(buffer)
    /\ pc' = "shaped"
    /\ UNCHANGED <<inputs, shaping, layout, err, props_list, canvas, idx>>

NextGlyphs ==
    \/ ShapeGlyph
    \/ ReturnPaths

SpecGlyphs == InitGlyphs /\ [][NextGlyphs]_vars

\* the sum of the x-advances of the glyphs before glyph j of the buffer
AdvanceBefore(j) == Sum([k \in 1..(j - 1) |-> buffer[k].x_advance])

\* C30: shaped glyph placement agrees with shaped width: every emitted
\* glyph is at the sum of the x-advances of all the glyphs before it in the
\* buffer plus its own x-offset, also after glyphs without outline or with
\* a glyph id missing from the glyph order, and the pen after the last
\* glyph is at the total advance that get_text_width sums.
C30_PlacementMatchesWidth ==
    /\ \A r \in 1..Len(results) :
         results[r].x = AdvanceBefore(results[r].glyph)
                           + buffer[results[r].glyph].x_offset
    /\ pc = "shaped" => current_x = TotalAdvanceUnits(buffer)

====
